---- MODULE Spec2Model ----
(***************************************************************************)
(* In-memory todo store of app.py: the TODOS mapping, the NEXT_ID counter  *)
(* and the request handlers that create, update, reorder and delete todos. *)
(* One action per handler.  Under Spec the requests are served one at a    *)
(* time and every handler runs to completion before the next one starts.   *)
(***************************************************************************)
EXTENDS Integers, Sequences, FiniteSets, TLC

\* ---------------------------------------------------------------- bounds
\* creations are enabled while NEXT_ID <= MaxId
MaxId == 3
\* longest "order" list sent to /todos/reorder
MaxOrder == 2
\* longest "items" list sent to /todos/bulk
MaxItems == 2
\* number of requests served in one behaviour
MaxCalls == 3
\* request threads of the development server that run at the same time
MaxThreads == 2
\* todos already stored when the concurrent requests arrive
Preloaded == 2

VARIABLES
    TODOS,          \* the dict TODOS, as the sequence of its values in insertion order
    NEXT_ID,        \* the global id counter
    allowed_fields, \* iteration order of the set literal allowed_fields in patch_todo:
                    \* fixed for the process by the string hash seed, drawn here when
                    \* patch_todo first iterates over the set (<<>> until then)
    req,            \* the request being answered (NoReq while the server is idle)
    resp,           \* the response the handler returned for it
    prev,           \* TODOS and NEXT_ID as they were when that request arrived
    issued,         \* ids of the todos stored so far, in creation order
    calls,          \* number of requests served
    threads         \* per request thread of the threaded server: where it stands in
                    \* its handler and the handler's locals (all idle while requests
                    \* are served one after the other)

vars == <<TODOS, NEXT_ID, allowed_fields, req, resp, prev, issued, calls, threads>>

\* ------------------------------------------------------------ JSON values
\* A JSON value of a request body; Missing stands for an absent key.
Missing == [t |-> "missing", b |-> FALSE, i |-> 0, s |-> ""]
JBool(x) == [t |-> "bool", b |-> x, i |-> 0, s |-> ""]
JInt(n) == [t |-> "int", b |-> FALSE, i |-> n, s |-> ""]
JStr(x) == [t |-> "str", b |-> FALSE, i |-> 0, s |-> x]

\* data.get(key, default)
GetOr(v, default) == IF v.t = "missing" THEN default ELSE v

\* Python truth value: None, "", 0 and False are false
Truthy(v) ==
    CASE v.t = "missing" -> FALSE
      [] v.t = "bool" -> v.b
      [] v.t = "int" -> v.i # 0
      [] v.t = "str" -> v.s # ""

\* bool(x)
PyBool(v) == Truthy(v)

\* decimal numerals among the strings the requests carry
Numerals == {"1", "2"}
NumeralValue(x) == IF x = "1" THEN 1 ELSE 2

\* int(x) raises ValueError/TypeError on None and on a string that is no numeral
IntRaises(v) ==
    CASE v.t = "missing" -> TRUE
      [] v.t = "str" -> v.s \notin Numerals
      [] OTHER -> FALSE

\* int(x) where it does not raise
PyInt(v) ==
    CASE v.t = "int" -> v.i
      [] v.t = "bool" -> (IF v.b THEN 1 ELSE 0)
      [] v.t = "str" /\ v.s \in Numerals -> NumeralValue(v.s)
      [] OTHER -> 0

\* ------------------------------------------------------------ the dict
Keys(T) == {T[k].id : k \in DOMAIN T}

IndexOf(T, tid) == CHOOSE k \in DOMAIN T : T[k].id = tid

\* TODOS.get(tid) / TODOS[tid], for a key that is present
Lookup(T, tid) == T[IndexOf(T, tid)]

\* TODOS[tid] = todo: an existing key keeps its place, a new key goes last
Store(T, todo) ==
    IF todo.id \in Keys(T)
    THEN [T EXCEPT ![IndexOf(T, todo.id)] = todo]
    ELSE Append(T, todo)

\* a pop that hands the todo back and leaves it in the dict
Pop_leaves_todo(T, tid) == T

\* TODOS.pop(tid, None)
Pop(T, tid) == SelectSeq(T, LAMBDA t : t.id # tid)

NoTodo == <<>>

\* ------------------------------------------------------------ make_todo
\* make_todo with a counter that is not advanced
make_todo_no_increment(n, title, is_done, priority) ==
    [ raised |-> IntRaises(priority),
      next   |-> n,
      todo   |-> [ id |-> n, title |-> title.s, is_done |-> PyBool(is_done),
                   priority |-> PyInt(priority), position |-> n ] ]

\* make_todo with position left at a fixed first slot
make_todo_position_one(n, title, is_done, priority) ==
    [ raised |-> IntRaises(priority),
      next   |-> n + 1,
      todo   |-> [ id |-> n, title |-> title.s, is_done |-> PyBool(is_done),
                   priority |-> PyInt(priority), position |-> 1 ] ]

\* The counter is read and advanced before the dict literal is evaluated, so
\* an int(priority) that raises leaves NEXT_ID advanced and returns no todo.
make_todo(n, title, is_done, priority) ==
    [ raised |-> IntRaises(priority),
      next   |-> n + 1,
      todo   |-> [ id |-> n, title |-> title.s, is_done |-> PyBool(is_done),
                   priority |-> PyInt(priority), position |-> n ] ]

\* ------------------------------------------------------------ requests
DefaultIsDone == JBool(FALSE)
DefaultPriority == JInt(1)

Body(title, is_done, priority) ==
    [title |-> title, is_done |-> is_done, priority |-> priority]

\* JSON bodies sent to POST /todos
CreateBodies ==
    { Body(JStr("a"), Missing, Missing),
      Body(JStr("b"), JBool(TRUE), JInt(2)),
      Body(Missing, JBool(TRUE), Missing),
      Body(JStr(""), Missing, JInt(2)),
      Body(JStr("a"), Missing, JStr("x")) }

\* JSON bodies sent to PUT /todos/<id>
ReplaceBodies ==
    { Body(JStr("b"), JBool(TRUE), JInt(2)),
      Body(JStr(""), JBool(FALSE), JInt(1)),
      Body(JStr("b"), JStr("no"), JStr("2")),
      Body(JStr("b"), JBool(TRUE), JStr("x")),
      Body(JStr("b"), JBool(TRUE), Missing) }

\* JSON bodies sent to PUT /todos/<id>/status
StatusBodies ==
    { Body(Missing, JBool(TRUE), Missing),
      Body(Missing, JBool(FALSE), Missing),
      Body(Missing, Missing, JInt(2)) }

\* JSON bodies sent to PATCH /todos/<id>
PatchBodies ==
    { Body(JStr("c"), Missing, Missing),
      Body(Missing, JBool(TRUE), Missing),
      Body(Missing, Missing, JInt(2)),
      Body(JStr("b"), JBool(TRUE), JStr("x")),
      Body(Missing, Missing, Missing) }

EmptyBody == [title |-> Missing, is_done |-> Missing, priority |-> Missing]

\* Ids a request can name: those issued so far and NEXT_ID, which stands for
\* every id not issued yet (the handlers only test such an id for membership).
Ids == 1..(IF NEXT_ID <= MaxId THEN NEXT_ID ELSE MaxId)

NoReq == [op |-> "none", id |-> 0, body |-> EmptyBody, isList |-> FALSE,
          order |-> <<>>, items |-> <<>>, arg |-> ""]

NoResp == [status |-> 0, todo |-> NoTodo, todos |-> <<>>, ids |-> <<>>, count |-> 0]

Snapshot == [TODOS |-> TODOS, NEXT_ID |-> NEXT_ID]

NoSnapshot == [TODOS |-> <<>>, NEXT_ID |-> 0]

\* the server takes one request at a time and no more than MaxCalls in all
Idle == req.op = "none" /\ calls < MaxCalls

\* the bookkeeping every handler shares: the request, its response, the state before
Served(r, rs) ==
    /\ req' = r
    /\ resp' = rs
    /\ prev' = Snapshot
    /\ calls' = calls + 1
    /\ UNCHANGED threads

Permutations3 ==
    { <<"title", "is_done", "priority">>, <<"title", "priority", "is_done">>,
      <<"is_done", "title", "priority">>, <<"is_done", "priority", "title">>,
      <<"priority", "title", "is_done">>, <<"priority", "is_done", "title">> }

\* the orders the set can have at this point of the process's life
FieldOrders(known) == IF known = <<>> THEN Permutations3 ELSE {known}

Threads == 1..MaxThreads

\* a thread that has not picked up a request
IdleThread ==
    [pc |-> "idle", op |-> "none", todo_id |-> 0, loaded |-> 0, order |-> <<>>,
     idx |-> 0, written |-> 0, status |-> 0]

Init ==
    /\ TODOS = <<>>
    /\ NEXT_ID = 1
    /\ allowed_fields = <<>>
    /\ req = NoReq
    /\ resp = NoResp
    /\ prev = NoSnapshot
    /\ issued = <<>>
    /\ calls = 0
    /\ threads = [t \in Threads |-> IdleThread]

\* ------------------------------------------------------------ POST /todos
create_todo(body) ==
    /\ Idle
    /\ NEXT_ID <= MaxId
    /\ LET r == [NoReq EXCEPT !.op = "create", !.body = body]
           m == make_todo(NEXT_ID, body.title,
                          GetOr(body.is_done, DefaultIsDone),
                          GetOr(body.priority, DefaultPriority))
       IN  IF ~Truthy(body.title)
           THEN /\ Served(r, [NoResp EXCEPT !.status = 400])
                /\ UNCHANGED <<TODOS, NEXT_ID, issued, allowed_fields>>
           ELSE IF m.raised
           THEN /\ NEXT_ID' = m.next
                /\ Served(r, [NoResp EXCEPT !.status = 500])
                /\ UNCHANGED <<TODOS, issued, allowed_fields>>
           ELSE /\ NEXT_ID' = m.next
                /\ TODOS' = Store(TODOS, m.todo)
                /\ issued' = Append(issued, m.todo.id)
                /\ Served(r, [NoResp EXCEPT !.status = 201, !.todo = <<m.todo>>])
                /\ UNCHANGED allowed_fields

\* ------------------------------------------------------------ DELETE /todos/<id>
delete_todo(todo_id) ==
    /\ Idle
    /\ LET r == [NoReq EXCEPT !.op = "delete", !.id = todo_id]
       IN  IF todo_id \notin Keys(TODOS)
           THEN /\ Served(r, [NoResp EXCEPT !.status = 404])
                /\ UNCHANGED <<TODOS, NEXT_ID, issued, allowed_fields>>
           ELSE /\ TODOS' = Pop(TODOS, todo_id)
                /\ Served(r, [NoResp EXCEPT !.status = 200, !.ids = <<todo_id>>])
                /\ UNCHANGED <<NEXT_ID, issued, allowed_fields>>

\* ------------------------------------------------------------ POST /todos/bulk
\* the objects an "items" list is made of
BulkItems ==
    { Body(JStr("a"), Missing, Missing),
      Body(JStr("b"), JBool(TRUE), JInt(2)),
      Body(JStr(""), JBool(TRUE), Missing),
      Body(JStr("a"), Missing, JStr("x")) }

SeqsUpTo(S, n) == UNION { [1..k -> S] : k \in 0..n }

\* number of items that pass the title test, an upper bound on the ids consumed
NumTitled(items) == Cardinality({k \in DOMAIN items : Truthy(items[k].title)})

\* The loop with make_todo called ahead of the title test, so that a skipped
\* item takes an id with it.
RECURSIVE BulkLoop_skipped_takes_id(_, _, _)
BulkLoop_skipped_takes_id(items, k, acc) ==
    IF k > Len(items) THEN acc
    ELSE LET m == make_todo(acc.NEXT_ID, items[k].title,
                            GetOr(items[k].is_done, DefaultIsDone),
                            GetOr(items[k].priority, DefaultPriority))
         IN  IF ~Truthy(items[k].title)
             THEN BulkLoop_skipped_takes_id(items, k + 1, [acc EXCEPT !.NEXT_ID = m.next])
             ELSE IF m.raised
             THEN [acc EXCEPT !.NEXT_ID = m.next, !.raised = TRUE]
             ELSE BulkLoop_skipped_takes_id(items, k + 1,
                           [acc EXCEPT !.NEXT_ID = m.next,
                                       !.TODOS = Store(acc.TODOS, m.todo),
                                       !.created = Append(acc.created, m.todo)])

\* The for loop over items, from item k on: acc carries TODOS, NEXT_ID and
\* created; an int(priority) that raises ends the loop and the request.
RECURSIVE BulkLoop(_, _, _)
BulkLoop(items, k, acc) ==
    IF k > Len(items) THEN acc
    ELSE IF ~Truthy(items[k].title) THEN BulkLoop(items, k + 1, acc)
    ELSE LET m == make_todo(acc.NEXT_ID, items[k].title,
                            GetOr(items[k].is_done, DefaultIsDone),
                            GetOr(items[k].priority, DefaultPriority))
         IN  IF m.raised
             THEN [acc EXCEPT !.NEXT_ID = m.next, !.raised = TRUE]
             ELSE BulkLoop(items, k + 1,
                           [acc EXCEPT !.NEXT_ID = m.next,
                                       !.TODOS = Store(acc.TODOS, m.todo),
                                       !.created = Append(acc.created, m.todo)])

create_todos_bulk(isList, items) ==
    /\ Idle
    /\ NEXT_ID + NumTitled(items) - 1 <= MaxId
    /\ LET r == [NoReq EXCEPT !.op = "createMany", !.isList = isList, !.items = items]
           out == BulkLoop(items, 1, [TODOS |-> TODOS, NEXT_ID |-> NEXT_ID,
                                      created |-> <<>>, raised |-> FALSE])
       IN  IF ~isList
           THEN /\ Served(r, [NoResp EXCEPT !.status = 400])
                /\ UNCHANGED <<TODOS, NEXT_ID, issued, allowed_fields>>
           ELSE /\ TODOS' = out.TODOS
                /\ NEXT_ID' = out.NEXT_ID
                /\ issued' = issued \o [k \in DOMAIN out.created |-> out.created[k].id]
                /\ IF out.raised
                   THEN Served(r, [NoResp EXCEPT !.status = 500])
                   ELSE Served(r, [NoResp EXCEPT !.status = 201,
                                                 !.todos = out.created,
                                                 !.count = Len(out.created)])
                /\ UNCHANGED allowed_fields

\* ------------------------------------------------------------ PUT /todos/<id>
\* replace_todo rebuilding the todo the way make_todo does, position included
replace_updated_resets_position(existing, todo_id, body) ==
    [ id |-> todo_id, title |-> body.title.s, is_done |-> PyBool(body.is_done),
      priority |-> PyInt(body.priority), position |-> todo_id ]

\* the dict "updated"
replace_updated(existing, todo_id, body) ==
    [ id |-> todo_id, title |-> body.title.s, is_done |-> PyBool(body.is_done),
      priority |-> PyInt(body.priority), position |-> existing.position ]

\* what replace_todo answers and leaves in TODOS when it runs on the store T
replace_outcome(T, todo_id, body) ==
    IF todo_id \notin Keys(T)
    THEN [status |-> 404, todo |-> NoTodo, TODOS |-> T]
    ELSE IF \/ body.title.t = "missing"
            \/ body.is_done.t = "missing"
            \/ body.priority.t = "missing"
    THEN [status |-> 400, todo |-> NoTodo, TODOS |-> T]
    ELSE IF IntRaises(body.priority)
    THEN [status |-> 500, todo |-> NoTodo, TODOS |-> T]
    ELSE LET updated == replace_updated(Lookup(T, todo_id), todo_id, body)
         IN  [status |-> 200, todo |-> <<updated>>, TODOS |-> Store(T, updated)]

replace_todo(todo_id, body) ==
    /\ Idle
    /\ LET r == [NoReq EXCEPT !.op = "replace", !.id = todo_id, !.body = body]
           out == replace_outcome(TODOS, todo_id, body)
       IN  /\ TODOS' = out.TODOS
           /\ Served(r, [NoResp EXCEPT !.status = out.status, !.todo = out.todo])
           /\ UNCHANGED <<NEXT_ID, issued, allowed_fields>>

\* ------------------------------------------------------------ PUT /todos/<id>/status
\* put_todo_status flipping the flag whenever the request asks for "done"
status_updated_toggles(existing, body) ==
    [existing EXCEPT !.is_done = IF PyBool(body.is_done) THEN ~existing.is_done
                                 ELSE FALSE]

\* existing["is_done"] = bool(data["is_done"])
status_updated(existing, body) ==
    [existing EXCEPT !.is_done = PyBool(body.is_done)]

\* what put_todo_status answers and leaves in TODOS when it runs on the store T
status_outcome(T, todo_id, body) ==
    IF todo_id \notin Keys(T)
    THEN [status |-> 404, todo |-> NoTodo, TODOS |-> T]
    ELSE IF body.is_done.t = "missing"
    THEN [status |-> 400, todo |-> NoTodo, TODOS |-> T]
    ELSE LET existing == status_updated(Lookup(T, todo_id), body)
         IN  [status |-> 200, todo |-> <<existing>>, TODOS |-> Store(T, existing)]

put_todo_status(todo_id, body) ==
    /\ Idle
    /\ LET r == [NoReq EXCEPT !.op = "setStatus", !.id = todo_id, !.body = body]
           out == status_outcome(TODOS, todo_id, body)
       IN  /\ TODOS' = out.TODOS
           /\ Served(r, [NoResp EXCEPT !.status = out.status, !.todo = out.todo])
           /\ UNCHANGED <<NEXT_ID, issued, allowed_fields>>

\* ------------------------------------------------------------ PATCH /todos/<id>
\* The loop without its "if field in data" test: an absent field is written
\* with the default it has at creation (the title with the empty string).
PatchLoop_writes_absent_fields(fields, k, body, acc) ==
    IF IntRaises(GetOr(body.priority, DefaultPriority))
    THEN [acc EXCEPT !.raised = TRUE]
    ELSE [acc EXCEPT !.todo.title = body.title.s,
                     !.todo.is_done = PyBool(GetOr(body.is_done, DefaultIsDone)),
                     !.todo.priority = PyInt(GetOr(body.priority, DefaultPriority))]

\* The for loop over allowed_fields, from field k on.  existing is the dict
\* held by TODOS, so each assignment is visible in the store at once; an
\* int(data["priority"]) that raises ends the loop and the request.
RECURSIVE PatchLoop(_, _, _, _)
PatchLoop(fields, k, body, acc) ==
    IF k > Len(fields) THEN acc
    ELSE IF body[fields[k]].t = "missing" THEN PatchLoop(fields, k + 1, body, acc)
    ELSE IF fields[k] = "is_done"
         THEN PatchLoop(fields, k + 1, body,
                        [acc EXCEPT !.todo.is_done = PyBool(body.is_done)])
    ELSE IF fields[k] = "priority"
         THEN IF IntRaises(body.priority)
              THEN [acc EXCEPT !.raised = TRUE]
              ELSE PatchLoop(fields, k + 1, body,
                             [acc EXCEPT !.todo.priority = PyInt(body.priority)])
    ELSE PatchLoop(fields, k + 1, body, [acc EXCEPT !.todo.title = body.title.s])

patch_todo(todo_id, body) ==
    /\ Idle
    /\ LET r == [NoReq EXCEPT !.op = "patch", !.id = todo_id, !.body = body]
       IN  IF todo_id \notin Keys(TODOS)
           THEN /\ Served(r, [NoResp EXCEPT !.status = 404])
                /\ UNCHANGED <<TODOS, NEXT_ID, issued, allowed_fields>>
           ELSE IF /\ body.title.t = "missing"
                   /\ body.is_done.t = "missing"
                   /\ body.priority.t = "missing"
           THEN /\ Served(r, [NoResp EXCEPT !.status = 400])
                /\ UNCHANGED <<TODOS, NEXT_ID, issued, allowed_fields>>
           ELSE \E fields \in FieldOrders(allowed_fields) :
                LET out == PatchLoop(fields, 1, body,
                                     [todo |-> Lookup(TODOS, todo_id), raised |-> FALSE])
                IN  /\ allowed_fields' = fields
                    /\ TODOS' = Store(TODOS, out.todo)
                    /\ IF out.raised
                       THEN Served(r, [NoResp EXCEPT !.status = 500])
                       ELSE Served(r, [NoResp EXCEPT !.status = 200, !.todo = <<out.todo>>])
                    /\ UNCHANGED <<NEXT_ID, issued>>

\* ------------------------------------------------------------ sorting
\* insert t behind every element whose position is not larger (stable)
RECURSIVE InsertByPosition(_, _)
InsertByPosition(sorted, t) ==
    IF sorted = <<>> THEN <<t>>
    ELSE IF sorted[Len(sorted)].position <= t.position
         THEN Append(sorted, t)
         ELSE Append(InsertByPosition(SubSeq(sorted, 1, Len(sorted) - 1), t),
                     sorted[Len(sorted)])

\* todos.sort(key=lambda t: t["position"]) / sorted(..., key=...): a stable sort
RECURSIVE SortByPosition(_)
SortByPosition(todos) ==
    IF todos = <<>> THEN <<>>
    ELSE InsertByPosition(SortByPosition(SubSeq(todos, 1, Len(todos) - 1)),
                          todos[Len(todos)])

\* ------------------------------------------------------------ GET /todos
StatusInputs == {"all", "open", "done", "other"}

\* the filter with its two branches exchanged
ListFilter_branches_exchanged(status, todos) ==
    IF status = "open" THEN SelectSeq(todos, LAMBDA t : t.is_done)
    ELSE IF status = "done" THEN SelectSeq(todos, LAMBDA t : ~t.is_done)
    ELSE todos

ListFilter(status, todos) ==
    IF status = "open" THEN SelectSeq(todos, LAMBDA t : ~t.is_done)
    ELSE IF status = "done" THEN SelectSeq(todos, LAMBDA t : t.is_done)
    ELSE todos

ListResult(status, T) == SortByPosition(ListFilter(status, T))

list_todos(status) ==
    /\ Idle
    /\ Served([NoReq EXCEPT !.op = "list", !.arg = status],
              [NoResp EXCEPT !.status = 200, !.todos = ListResult(status, TODOS)])
    /\ UNCHANGED <<TODOS, NEXT_ID, issued, allowed_fields>>

\* ------------------------------------------------------------ PATCH /todos/reorder
InOrder(order, tid) == \E k \in DOMAIN order : order[k] = tid

\* missing = [tid for tid in order if tid not in TODOS]
MissingIds(order, T) == SelectSeq(order, LAMBDA tid : tid \notin Keys(T))

\* for idx, tid in enumerate(order, start=1): TODOS[tid]["position"] = idx
RECURSIVE ApplyOrder(_, _, _)
ApplyOrder(T, order, idx) ==
    IF idx > Len(order) THEN T
    ELSE ApplyOrder([T EXCEPT ![IndexOf(T, order[idx])].position = idx], order, idx + 1)

\* for t in remaining: t["position"] = current_pos; current_pos += 1
\* (remaining is taken from TODOS.values(), k walks the dict in its order)
RECURSIVE AssignRemaining(_, _, _, _)
AssignRemaining(T, order, k, current_pos) ==
    IF k > Len(T) THEN T
    ELSE IF InOrder(order, T[k].id) THEN AssignRemaining(T, order, k + 1, current_pos)
    ELSE AssignRemaining([T EXCEPT ![k].position = current_pos], order, k + 1,
                         current_pos + 1)

\* the second loop starting at 1 in place of len(order) + 1
Reordered_remaining_from_one(T, order) ==
    AssignRemaining(ApplyOrder(T, order, 1), order, 1, 1)

\* the two position loops of reorder_todos
Reordered(T, order) == AssignRemaining(ApplyOrder(T, order, 1), order, 1, Len(order) + 1)

\* reorder_todos that writes positions as it walks order and stops at the
\* first unknown id, in place of validating the whole list first
RECURSIVE ApplyOrderUntilUnknown(_, _, _)
ApplyOrderUntilUnknown(T, order, idx) ==
    IF idx > Len(order) \/ order[idx] \notin Keys(T) THEN T
    ELSE ApplyOrderUntilUnknown([T EXCEPT ![IndexOf(T, order[idx])].position = idx],
                                order, idx + 1)

RejectedReorder_partial(T, order) == ApplyOrderUntilUnknown(T, order, 1)

\* the store as the 400 branch for unknown ids leaves it: nothing was written
RejectedReorder(T, order) == T

reorder_todos(isList, order) ==
    /\ Idle
    /\ LET r == [NoReq EXCEPT !.op = "reorder", !.isList = isList, !.order = order]
       IN  IF ~isList
           THEN /\ Served(r, [NoResp EXCEPT !.status = 400])
                /\ UNCHANGED <<TODOS, NEXT_ID, issued, allowed_fields>>
           ELSE IF MissingIds(order, TODOS) # <<>>
           THEN /\ TODOS' = RejectedReorder(TODOS, order)
                /\ Served(r, [NoResp EXCEPT !.status = 400,
                                            !.ids = MissingIds(order, TODOS)])
                /\ UNCHANGED <<NEXT_ID, issued, allowed_fields>>
           ELSE /\ TODOS' = Reordered(TODOS, order)
                /\ Served(r, [NoResp EXCEPT !.status = 200,
                                            !.todos = SortByPosition(Reordered(TODOS, order))])
                /\ UNCHANGED <<NEXT_ID, issued, allowed_fields>>

\* ------------------------------------------------------------ DELETE /todos
CompletedOnlyInputs == {"true", "True", "false"}

\* str.lower() on the query values above
Lower(x) == IF x = "True" THEN "true" ELSE x

\* to_delete without the is_done test
ToDelete_every_todo(T) == [k \in DOMAIN T |-> T[k].id]

\* to_delete = [tid for tid, t in TODOS.items() if t["is_done"]]
ToDelete(T) ==
    LET done == SelectSeq(T, LAMBDA t : t.is_done)
    IN  [k \in DOMAIN done |-> done[k].id]

\* for tid in to_delete: TODOS.pop(tid, None)
RECURSIVE PopAll(_, _)
PopAll(T, ids) == IF ids = <<>> THEN T ELSE PopAll(Pop(T, Head(ids)), Tail(ids))

\* deleted_ids taken from the done todos only
KeyList_done_only(T) == ToDelete(T)

\* deleted_ids = list(TODOS.keys())
KeyList(T) == [k \in DOMAIN T |-> T[k].id]

delete_many_todos(arg) ==
    /\ Idle
    /\ LET r == [NoReq EXCEPT !.op = "deleteMany", !.arg = arg]
           completed_only == (Lower(arg) = "true")
       IN  IF completed_only
           THEN /\ TODOS' = PopAll(TODOS, ToDelete(TODOS))
                /\ Served(r, [NoResp EXCEPT !.status = 200, !.ids = ToDelete(TODOS)])
                /\ UNCHANGED <<NEXT_ID, issued, allowed_fields>>
           ELSE /\ TODOS' = <<>>
                /\ Served(r, [NoResp EXCEPT !.status = 200, !.ids = KeyList(TODOS)])
                /\ UNCHANGED <<NEXT_ID, issued, allowed_fields>>

\* ------------------------------------------------------------ the server loop
\* The response is sent and the server waits for the next request; the store
\* and the counter stay as the handler left them.  After the last request of
\* the behaviour the state keeps showing that request and its response.
send_response ==
    /\ req.op # "none"
    /\ calls < MaxCalls
    /\ req' = NoReq
    /\ resp' = NoResp
    /\ prev' = NoSnapshot
    /\ UNCHANGED <<TODOS, NEXT_ID, allowed_fields, issued, calls, threads>>

Next ==
    \/ \E body \in CreateBodies : create_todo(body)
    \/ \E items \in SeqsUpTo(BulkItems, MaxItems) : create_todos_bulk(TRUE, items)
    \/ create_todos_bulk(FALSE, <<>>)
    \/ \E todo_id \in Ids : \E body \in ReplaceBodies : replace_todo(todo_id, body)
    \/ \E todo_id \in Ids : \E body \in StatusBodies : put_todo_status(todo_id, body)
    \/ \E todo_id \in Ids : \E body \in PatchBodies : patch_todo(todo_id, body)
    \/ \E order \in SeqsUpTo(Ids, MaxOrder) : reorder_todos(TRUE, order)
    \/ reorder_todos(FALSE, <<>>)
    \/ \E status \in StatusInputs : list_todos(status)
    \/ \E todo_id \in Ids : delete_todo(todo_id)
    \/ \E arg \in CompletedOnlyInputs : delete_many_todos(arg)
    \/ send_response

Spec == Init /\ [][Next]_vars

\* ------------------------------------------------ app.run(debug=True)
\* The development server answers each request on a thread of its own and the
\* handlers take no lock, so the reads and writes of TODOS and NEXT_ID of two
\* requests interleave.  Each action below is one access to the shared globals
\* by the thread t.

\* the store after n requests POST /todos {"title": "a"} served one by one
Preload(n) ==
    [k \in 1..n |-> make_todo(k, JStr("a"), DefaultIsDone, DefaultPriority).todo]

InitConc ==
    \E n \in 0..Preloaded :
        /\ TODOS = Preload(n)
        /\ NEXT_ID = n + 1
        /\ allowed_fields = <<>>
        /\ req = NoReq
        /\ resp = NoResp
        /\ prev = NoSnapshot
        /\ issued = [k \in 1..n |-> k]
        /\ calls = n
        /\ threads = [t \in Threads |-> IdleThread]

Sequential == <<allowed_fields, req, resp, prev, issued, calls>>

\* the thread t ends its request with the given status
Finished(t, status) ==
    [threads[t] EXCEPT !.pc = "done", !.status = status, !.order = <<>>, !.idx = 0,
                       !.loaded = 0]

\* POST /todos {"title": "a"}, make_todo: todo_id = NEXT_ID
make_todo_read_id(t) ==
    /\ threads[t].pc = "idle"
    /\ NEXT_ID <= MaxId
    /\ threads' = [threads EXCEPT ![t] = [@ EXCEPT !.pc = "incr_load", !.op = "create",
                                                   !.todo_id = NEXT_ID]]
    /\ UNCHANGED <<TODOS, NEXT_ID, Sequential>>

\* make_todo: NEXT_ID += 1, the load of the global
make_todo_incr_load(t) ==
    /\ threads[t].pc = "incr_load"
    /\ threads' = [threads EXCEPT ![t] = [@ EXCEPT !.pc = "incr_store",
                                                   !.loaded = NEXT_ID]]
    /\ UNCHANGED <<TODOS, NEXT_ID, Sequential>>

\* make_todo: NEXT_ID += 1, the store of the loaded value plus one
make_todo_incr_store(t) ==
    /\ threads[t].pc = "incr_store"
    /\ NEXT_ID' = threads[t].loaded + 1
    /\ threads' = [threads EXCEPT ![t] = [@ EXCEPT !.pc = "insert", !.loaded = 0]]
    /\ UNCHANGED <<TODOS, Sequential>>

\* create_todo: TODOS[todo["id"]] = todo; return jsonify(todo), 201
create_todo_insert(t) ==
    /\ threads[t].pc = "insert"
    /\ TODOS' = Store(TODOS, make_todo(threads[t].todo_id, JStr("a"), DefaultIsDone,
                                       DefaultPriority).todo)
    /\ threads' = [threads EXCEPT ![t] = Finished(t, 201)]
    /\ UNCHANGED <<NEXT_ID, Sequential>>

\* PATCH /todos/reorder {"order": order}: the validation of the ids
reorder_validate(t, order) ==
    /\ threads[t].pc = "idle"
    /\ IF MissingIds(order, TODOS) # <<>>
       THEN threads' = [threads EXCEPT ![t] = [Finished(t, 400) EXCEPT !.op = "reorder"]]
       ELSE threads' = [threads EXCEPT ![t] =
                [@ EXCEPT !.op = "reorder", !.order = order, !.idx = 1,
                          !.pc = IF order = <<>> THEN "remaining" ELSE "assign"]]
    /\ UNCHANGED <<TODOS, NEXT_ID, Sequential>>

\* one round of the first loop: TODOS[tid]["position"] = idx, which raises
\* KeyError (answered with 500) when tid has left the dict since the validation
reorder_assign(t) ==
    /\ threads[t].pc = "assign"
    /\ LET idx == threads[t].idx
           tid == threads[t].order[idx]
       IN  IF tid \notin Keys(TODOS)
           THEN /\ threads' = [threads EXCEPT ![t] = Finished(t, 500)]
                /\ UNCHANGED TODOS
           ELSE /\ TODOS' = [TODOS EXCEPT ![IndexOf(TODOS, tid)].position = idx]
                /\ threads' = [threads EXCEPT ![t] =
                        [@ EXCEPT !.idx = idx + 1, !.written = idx,
                                  !.pc = IF idx = Len(threads[t].order)
                                         THEN "remaining" ELSE "assign"]]
    /\ UNCHANGED <<NEXT_ID, Sequential>>

\* the todos not mentioned get the positions after len(order); return 200
\* (taken as one step: a finer interleaving only adds behaviours)
reorder_remaining(t) ==
    /\ threads[t].pc = "remaining"
    /\ TODOS' = AssignRemaining(TODOS, threads[t].order, 1, Len(threads[t].order) + 1)
    /\ threads' = [threads EXCEPT ![t] = Finished(t, 200)]
    /\ UNCHANGED <<NEXT_ID, Sequential>>

\* DELETE /todos/<todo_id>: existing = TODOS.pop(todo_id, None)
delete_todo_pop(t, todo_id) ==
    /\ threads[t].pc = "idle"
    /\ TODOS' = Pop(TODOS, todo_id)
    /\ threads' = [threads EXCEPT ![t] =
            [Finished(t, IF todo_id \in Keys(TODOS) THEN 200 ELSE 404)
                EXCEPT !.op = "delete", !.todo_id = todo_id]]
    /\ UNCHANGED <<NEXT_ID, Sequential>>

\* DELETE /todos: TODOS.clear()
delete_many_clear(t) ==
    /\ threads[t].pc = "idle"
    /\ TODOS' = <<>>
    /\ threads' = [threads EXCEPT ![t] = [Finished(t, 200) EXCEPT !.op = "deleteMany"]]
    /\ UNCHANGED <<NEXT_ID, Sequential>>

NextConc ==
    \E t \in Threads :
        \/ make_todo_read_id(t)
        \/ make_todo_incr_load(t)
        \/ make_todo_incr_store(t)
        \/ create_todo_insert(t)
        \/ \E order \in SeqsUpTo(1..Preloaded, MaxOrder) : reorder_validate(t, order)
        \/ reorder_assign(t)
        \/ reorder_remaining(t)
        \/ \E todo_id \in 1..Preloaded : delete_todo_pop(t, todo_id)
        \/ delete_many_clear(t)

SpecConc == InitConc /\ [][NextConc]_vars

\* ================================================================ claims
Range(f) == {f[k] : k \in DOMAIN f}

Positions(T) == {T[k].position : k \in DOMAIN T}

\* the todos of T other than tid are in `now` as they are in T
OthersUnchanged(T, now, tid) ==
    /\ Len(now) = Len(T)
    /\ \A k \in DOMAIN T : T[k].id # tid => now[k] = T[k]

\* ---------------------------------------------------------------- C1
\* C1: the ids of the todos stored by create and createMany, taken in creation
\* order, are strictly increasing, so no id is issued twice, whatever was
\* deleted in between; every todo in the store carries an issued id.
C1_IdsStrictlyIncreasing ==
    /\ \A i, j \in DOMAIN issued : i < j => issued[i] < issued[j]
    /\ Keys(TODOS) \subseteq Range(issued)
    /\ (req.op = "create" /\ resp.status = 201) =>
           \A tid \in Keys(prev.TODOS) : tid < resp.todo[1].id

\* a create has succeeded after an earlier todo was deleted
C1_Witness ==
    /\ req.op = "create"
    /\ resp.status = 201
    /\ \E i \in DOMAIN issued :
          /\ issued[i] < resp.todo[1].id
          /\ issued[i] \notin Keys(TODOS)

NoRepeats(order) == \A i, j \in DOMAIN order : i # j => order[i] # order[j]

\* C3: after a successful reorder whose order list has no repeated id,
\* list("all") returns the todos of order first, in the sequence given, then
\* every other todo of the store, each once; reorder's own response is that
\* same sequence.
C3_ReorderThenList ==
    (req.op = "reorder" /\ resp.status = 200 /\ NoRepeats(req.order)) =>
        LET listed == ListResult("all", TODOS)
        IN  /\ Len(listed) = Len(prev.TODOS)
            /\ {listed[k].id : k \in DOMAIN listed} = Keys(prev.TODOS)
            /\ \A i \in DOMAIN req.order : listed[i].id = req.order[i]
            /\ \A i \in DOMAIN listed :
                  i > Len(req.order) => ~InOrder(req.order, listed[i].id)
            /\ resp.todos = listed

\* a reorder has moved a later todo ahead of an earlier one, a third one left out
C3_Witness ==
    /\ req.op = "reorder"
    /\ resp.status = 200
    /\ NoRepeats(req.order)
    /\ Len(req.order) = 2
    /\ req.order[1] > req.order[2]
    /\ Len(TODOS) > Len(req.order)

\* ---------------------------------------------------------------- C4
\* C4: a reorder whose order list names an id that is not in the store answers
\* 400 and leaves the store (every position included) and the counter as they
\* were, wherever the unknown id stands in the list.
C4_ReorderUnknownIdChangesNothing ==
    ( /\ req.op = "reorder"
      /\ req.isList
      /\ \E k \in DOMAIN req.order : req.order[k] \notin Keys(prev.TODOS) ) =>
        /\ resp.status = 400
        /\ TODOS = prev.TODOS
        /\ NEXT_ID = prev.NEXT_ID

\* a reorder was refused whose list starts with a stored todo that is not at
\* position 1 and goes on with an unknown id
C4_Witness ==
    /\ req.op = "reorder"
    /\ resp.status = 400
    /\ Len(req.order) = 2
    /\ req.order[1] \in Keys(prev.TODOS)
    /\ req.order[2] \notin Keys(prev.TODOS)
    /\ Lookup(prev.TODOS, req.order[1]).position # 1

\* ---------------------------------------------------------------- C5
\* C5: after any successful reorder the positions of the N stored todos are
\* exactly 1..N, each used once.
C5_PositionsContiguousAfterReorder ==
    (req.op = "reorder" /\ resp.status = 200) =>
        /\ Positions(TODOS) = 1..Len(TODOS)
        /\ \A i, j \in DOMAIN TODOS : i # j => TODOS[i].position # TODOS[j].position

\* ---------------------------------------------------------------- C6
\* C6: after a successful reorder the todo order[i] (0-based i) has position
\* i+1, the todos left out of order have the positions len(order)+1,
\* len(order)+2, ... without gap or repeat, and nothing but positions changed.
C6_ReorderAssignsIndexPlusOne ==
    (req.op = "reorder" /\ resp.status = 200) =>
        LET rest == SelectSeq(TODOS, LAMBDA t : ~InOrder(req.order, t.id))
        IN  /\ \A i \in DOMAIN req.order : Lookup(TODOS, req.order[i]).position = i
            /\ Positions(rest) = (Len(req.order) + 1)..(Len(req.order) + Len(rest))
            /\ Len(TODOS) = Len(prev.TODOS)
            /\ \A k \in DOMAIN TODOS :
                  TODOS[k] = [prev.TODOS[k] EXCEPT !.position = TODOS[k].position]
            /\ NEXT_ID = prev.NEXT_ID

\* ---------------------------------------------------------------- C7
\* C7: a successful replace gives the todo the title, is_done and priority of
\* the request and keeps its id and its position, also a position that an
\* earlier reorder assigned; the other todos and the counter are unchanged.
C7_ReplaceKeepsPosition ==
    (req.op = "replace" /\ resp.status = 200) =>
        LET old == Lookup(prev.TODOS, req.id)
            new == Lookup(TODOS, req.id)
        IN  /\ new.id = old.id
            /\ new.position = old.position
            /\ new.title = req.body.title.s
            /\ req.body.is_done.t = "bool" => new.is_done = req.body.is_done.b
            /\ req.body.priority.t = "int" => new.priority = req.body.priority.i
            /\ resp.todo = <<new>>
            /\ OthersUnchanged(prev.TODOS, TODOS, req.id)
            /\ NEXT_ID = prev.NEXT_ID

\* a replace has rewritten a todo whose position was no longer its id
C7_Witness ==
    /\ req.op = "replace"
    /\ resp.status = 200
    /\ Lookup(prev.TODOS, req.id).position # req.id
    /\ Lookup(prev.TODOS, req.id).title # req.body.title.s
    /\ Lookup(TODOS, req.id).title = req.body.title.s

\* ---------------------------------------------------------------- C8
\* C8: a successful setStatus changes nothing but is_done of the todo it
\* names; a successful patch changes none of title, is_done, priority that the
\* request leaves out, and neither id nor position; the other todos and the
\* counter are unchanged.
C8_StatusAndPatchFrame ==
    /\ (req.op = "setStatus" /\ resp.status = 200) =>
          LET old == Lookup(prev.TODOS, req.id)
              new == Lookup(TODOS, req.id)
          IN  /\ new = [old EXCEPT !.is_done = new.is_done]
              /\ req.body.is_done.t = "bool" => new.is_done = req.body.is_done.b
              /\ OthersUnchanged(prev.TODOS, TODOS, req.id)
              /\ NEXT_ID = prev.NEXT_ID
    /\ (req.op = "patch" /\ resp.status = 200) =>
          LET old == Lookup(prev.TODOS, req.id)
              new == Lookup(TODOS, req.id)
          IN  /\ new.id = old.id
              /\ new.position = old.position
              /\ req.body.title.t = "missing" => new.title = old.title
              /\ req.body.is_done.t = "missing" => new.is_done = old.is_done
              /\ req.body.priority.t = "missing" => new.priority = old.priority
              /\ req.body.title.t = "str" => new.title = req.body.title.s
              /\ req.body.is_done.t = "bool" => new.is_done = req.body.is_done.b
              /\ req.body.priority.t = "int" => new.priority = req.body.priority.i
              /\ OthersUnchanged(prev.TODOS, TODOS, req.id)
              /\ NEXT_ID = prev.NEXT_ID

\* a patch of the title alone has succeeded on a todo that was done, with a
\* priority other than 1 and a position other than its id
C8_Witness ==
    /\ req.op = "patch"
    /\ resp.status = 200
    /\ req.body.title.t = "str"
    /\ req.body.is_done.t = "missing"
    /\ req.body.priority.t = "missing"
    /\ Lookup(prev.TODOS, req.id).is_done
    /\ Lookup(prev.TODOS, req.id).priority # 1
    /\ Lookup(prev.TODOS, req.id).position # req.id
    /\ Lookup(prev.TODOS, req.id).title # req.body.title.s
    /\ Lookup(TODOS, req.id).title = req.body.title.s

\* ---------------------------------------------------------------- C9
DoneIds(T) == {T[k].id : k \in {n \in DOMAIN T : T[n].is_done}}

\* C9: deleteMany with completed_only true removes exactly the todos that were
\* done, returns exactly their ids, each once, and leaves the other todos and
\* the counter unchanged.
C9_DeleteCompletedOnly ==
    (req.op = "deleteMany" /\ req.arg \in {"true", "True"}) =>
        /\ resp.status = 200
        /\ Range(resp.ids) = DoneIds(prev.TODOS)
        /\ Len(resp.ids) = Cardinality(DoneIds(prev.TODOS))
        /\ Keys(TODOS) = Keys(prev.TODOS) \ DoneIds(prev.TODOS)
        /\ \A tid \in Keys(TODOS) : Lookup(TODOS, tid) = Lookup(prev.TODOS, tid)
        /\ Len(TODOS) = Cardinality(Keys(TODOS))
        /\ NEXT_ID = prev.NEXT_ID

\* the store held a done todo and an open one when the call came
C9_Witness ==
    /\ req.op = "deleteMany"
    /\ req.arg \in {"true", "True"}
    /\ DoneIds(prev.TODOS) # {}
    /\ Keys(prev.TODOS) \ DoneIds(prev.TODOS) # {}
    /\ TODOS # <<>>

\* ---------------------------------------------------------------- C10
Titled(items) == SelectSeq(items, LAMBDA item : Truthy(item.title))

C11_CounterCountsCreations ==
    /\ NEXT_ID = 1 + Len(issued)
    /\ \A k \in DOMAIN TODOS : TODOS[k].id < NEXT_ID

\* ---------------------------------------------------------------- C12
ById == {"replace", "setStatus", "patch", "delete"}

\* C12: replace, setStatus, patch and delete naming an id that is not in the
\* store answer 404, whatever the body, and leave store and counter as they
\* were; a delete that succeeds takes the id out of the store, and no call
\* brings an id back that was issued before it.
C12_UnknownIdIsNotFound ==
    /\ (req.op \in ById /\ req.id \notin Keys(prev.TODOS)) =>
          /\ resp.status = 404
          /\ TODOS = prev.TODOS
          /\ NEXT_ID = prev.NEXT_ID
    /\ (req.op = "delete" /\ req.id \in Keys(prev.TODOS)) =>
          /\ resp.status = 200
          /\ req.id \notin Keys(TODOS)
    /\ req.op # "none" =>
          \A tid \in Keys(TODOS) \ Keys(prev.TODOS) : tid >= prev.NEXT_ID

\* a replace with a complete body was refused for an id that had been issued
\* and deleted
C12_Witness ==
    /\ req.op = "replace"
    /\ resp.status = 404
    /\ req.id \in Range(issued)
    /\ req.body.title.t = "str"
    /\ req.body.is_done.t = "bool"
    /\ req.body.priority.t = "int"

\* ---------------------------------------------------------------- C13
SingleEntity == {"create", "replace", "setStatus", "patch", "delete"}

\* C13: when a create, replace, setStatus, patch or delete ends in an error
\* the stored todos are exactly what they were before the call.
C13_FailedCallChangesNoTodo ==
    (req.op \in SingleEntity /\ resp.status \notin {200, 201}) =>
        TODOS = prev.TODOS

\* ---------------------------------------------------------------- C14
\* C14: every todo that create, createMany or replace writes to the store has
\* a non-empty title.
C14_WrittenTitleNonEmpty ==
    req.op \in {"create", "createMany", "replace"} =>
        \A k \in DOMAIN TODOS :
            TODOS[k] \notin Range(prev.TODOS) => TODOS[k].title # ""

\* ---------------------------------------------------------------- C15
\* C15: replace and setStatus are idempotent: the same request served again
\* right after gets the same status and the same todo, and leaves the store as
\* the first call left it.
C15_ReplaceAndStatusIdempotent ==
    /\ req.op = "replace" =>
          LET again == replace_outcome(TODOS, req.id, req.body)
          IN  /\ again.status = resp.status
              /\ again.todo = resp.todo
              /\ again.TODOS = TODOS
    /\ req.op = "setStatus" =>
          LET again == status_outcome(TODOS, req.id, req.body)
          IN  /\ again.status = resp.status
              /\ again.todo = resp.todo
              /\ again.TODOS = TODOS

\* a setStatus to "done" has succeeded on a todo that was already done
C15_Witness ==
    /\ req.op = "setStatus"
    /\ resp.status = 200
    /\ req.body.is_done = JBool(TRUE)
    /\ Lookup(prev.TODOS, req.id).is_done

\* ---------------------------------------------------------------- C16
\* C16: list answers 200 with exactly the open todos for "open", the done ones
\* for "done" and all todos for any other filter, each once, in ascending
\* position order, and changes neither store nor counter.
C16_ListFiltersAndSorts ==
    req.op = "list" =>
        LET wanted == { t \in Range(prev.TODOS) :
                          /\ req.arg = "open" => ~t.is_done
                          /\ req.arg = "done" => t.is_done }
        IN  /\ resp.status = 200
            /\ Range(resp.todos) = wanted
            /\ Len(resp.todos) = Cardinality(wanted)
            /\ \A i, j \in DOMAIN resp.todos :
                  i < j => resp.todos[i].position <= resp.todos[j].position
            /\ TODOS = prev.TODOS
            /\ NEXT_ID = prev.NEXT_ID

\* a store holding a done todo and an open one was listed under an
\* unrecognized filter, and the listing is not in id order
C16_Witness ==
    /\ req.op = "list"
    /\ req.arg = "other"
    /\ DoneIds(TODOS) # {}
    /\ Keys(TODOS) \ DoneIds(TODOS) # {}
    /\ Len(resp.todos) = 2
    /\ resp.todos[1].id > resp.todos[2].id

\* ---------------------------------------------------------------- C17
\* C17: deleteMany with completed_only not true answers 200, leaves the store
\* empty and returns the ids the store held, each once; the counter is
\* unchanged and above every id issued, so the next create gets a new id.
C17_DeleteAll ==
    (req.op = "deleteMany" /\ req.arg \notin {"true", "True"}) =>
        /\ resp.status = 200
        /\ TODOS = <<>>
        /\ Range(resp.ids) = Keys(prev.TODOS)
        /\ Len(resp.ids) = Cardinality(Keys(prev.TODOS))
        /\ NEXT_ID = prev.NEXT_ID
        /\ \A i \in DOMAIN issued : issued[i] < NEXT_ID

\* a store holding a done todo and an open one was emptied
C17_Witness ==
    /\ req.op = "deleteMany"
    /\ req.arg = "false"
    /\ DoneIds(prev.TODOS) # {}
    /\ Keys(prev.TODOS) \ DoneIds(prev.TODOS) # {}
    /\ Len(resp.ids) = 2

\* ---------------------------------------------------------------- C18
\* C18: two create requests served by concurrent threads never end with the
\* same id, so neither stored todo replaces the other's.
C18_ConcurrentCreatesDistinctIds ==
    \A t, u \in Threads :
        (/\ t # u
         /\ threads[t].op = "create" /\ threads[t].pc = "done"
         /\ threads[u].op = "create" /\ threads[u].pc = "done")
        => threads[t].todo_id # threads[u].todo_id

\* ---------------------------------------------------------------- C19
\* C19: a reorder that runs next to other requests either ends in an error
\* with no position written or runs to its end with status 200; it never stops
\* after writing only some positions.
C19_ReorderNeverStopsPartWay ==
    \A t \in Threads :
        (threads[t].op = "reorder" /\ threads[t].pc = "done") =>
            \/ threads[t].status = 200
            \/ threads[t].written = 0

\* ---------------------------------------------------------------- C20
\* C20: in every state reached by requests served one after the other no two
\* stored todos have the same position.
C20_PositionsDistinct ==
    \A i, j \in DOMAIN TODOS : i # j => TODOS[i].position # TODOS[j].position

====
